---------------------------- MODULE Spec2Model ----------------------------
(***************************************************************************)
(* The two serverless handlers of synapse-thesaurus:                       *)
(*   backend/synonyms/index.py  handler (synonym lookup)                    *)
(*   backend/export/index.py    handler (PDF / DOCX export)                 *)
(* One invocation at a time runs through the handler's statements; the     *)
(* request, the environment and the outcome of every outbound call or      *)
(* library call are chosen nondeterministically.                           *)
(*                                                                         *)
(* Strings the code inspects character by character are sequences of       *)
(* Unicode code points.  A JSON value is a record [t, v]: t is its type    *)
(* ("absent" for a missing key) and v its code points (a number n is <<n>>).*)
(***************************************************************************)
EXTENDS Integers, Sequences, FiniteSets, TLC

VARIABLES
    handlerName,  \* "none", "synonyms" or "export": the handler invoked
    pc,           \* position inside the handler
    event,        \* the event of the invocation
    env,          \* the process environment / installed packages
    word,         \* synonyms handler: local `word`
    lang,         \* synonyms handler: local `lang`
    synonyms,     \* synonyms handler: local `synonyms`
    calls,        \* outbound HTTP calls / build routines entered, in order
    replies,      \* what each outbound call returned, by callee
    doc,          \* export handler: locals text, replacements, export_format, file_bytes, ...
    response      \* the handler's return value

vars == <<handlerName, pc, event, env, word, lang, synonyms, calls, replies, doc, response>>

-----------------------------------------------------------------------------
(* Bounds of the model *)

MaxWordLen == 2
MaxReply == 2
MaxTextLen == 2
MaxReps == 1

-----------------------------------------------------------------------------
(* JSON values and Python helpers *)

Absent == [t |-> "absent", v |-> <<>>]
Null == [t |-> "null", v |-> <<>>]
Num(n) == [t |-> "num", v |-> <<n>>]
Str(s) == [t |-> "str", v |-> s]

\* dict.get(key, default) on a parsed JSON object
Get(obj, key, default) == IF obj[key].t = "absent" THEN default ELSE obj[key]

\* Python truth value of a JSON value
Truthy(j) ==
    CASE j.t = "str" -> Len(j.v) > 0
      [] j.t = "num" -> j.v[1] # 0
      [] OTHER -> FALSE

RECURSIVE Repeat(_, _)
Repeat(c, n) == IF n = 0 THEN <<>> ELSE <<c>> \o Repeat(c, n - 1)

RECURSIVE SeqsUpTo(_, _)
SeqsUpTo(S, n) ==
    IF n = 0 THEN {<<>>}
    ELSE LET shorter == SeqsUpTo(S, n - 1)
         IN  shorter \cup {Append(s, c) : s \in {q \in shorter : Len(q) = n - 1}, c \in S}

\* str.lower() of one code point (ASCII and the basic Cyrillic block)
LowerChar(c) ==
    CASE c >= 65 /\ c <= 90 -> c + 32
      [] c >= 1040 /\ c <= 1071 -> c + 32
      [] c >= 1024 /\ c <= 1039 -> c + 80
      [] OTHER -> c

StrLower(s) == [i \in 1..Len(s) |-> LowerChar(s[i])]

IsSpace(c) == c \in {9, 10, 11, 12, 13, 32}

RECURSIVE LStrip(_)
LStrip(s) == IF s # <<>> /\ IsSpace(s[1]) THEN LStrip(Tail(s)) ELSE s

RECURSIVE RStrip(_)
RStrip(s) == IF s # <<>> /\ IsSpace(s[Len(s)]) THEN RStrip(SubSeq(s, 1, Len(s) - 1)) ELSE s

StrStrip(s) == RStrip(LStrip(s))


L_en == <<101, 110>>
L_ru == <<114, 117>>
L_EN == <<69, 78>>


-----------------------------------------------------------------------------
(* Requests and responses common to both handlers *)

NoMethod == "<absent>"
Methods == {"OPTIONS", "POST", "GET", "post"}

\* The same if the method were compared without regard to case
Method_IgnoreCase(e, default) ==
    CASE e.httpMethod = NoMethod -> default
      [] e.httpMethod = "post" -> "POST"
      [] OTHER -> e.httpMethod

\* event.get('httpMethod', default)
Method(e, default) == IF e.httpMethod = NoMethod THEN default ELSE e.httpMethod

JsonHeaders == {<<"Content-Type", "application/json">>, <<"Access-Control-Allow-Origin", "*">>}

PreflightHeaders(allowed) ==
    {<<"Access-Control-Allow-Origin", "*">>,
     <<"Access-Control-Allow-Methods", allowed>>,
     <<"Access-Control-Allow-Headers", "Content-Type">>,
     <<"Access-Control-Max-Age", "86400">>}

NoResponse == [statusCode |-> 0, headers |-> {}, body |-> [kind |-> "none"], isBase64Encoded |-> FALSE]

PreflightResponse(allowed) ==
    [statusCode |-> 200, headers |-> PreflightHeaders(allowed),
     body |-> [kind |-> "empty"], isBase64Encoded |-> FALSE]

ErrorResponse(code, msg) ==
    [statusCode |-> code, headers |-> JsonHeaders,
     body |-> [kind |-> "error", error |-> msg], isBase64Encoded |-> FALSE]

\* json.loads(event.get('body', '{}')) followed by the first body_data.get(...):
\* the exception it raises, or "" when body_data is a dict
BodyError(body) ==
    CASE body.kind = "none" -> "the JSON object must be str, bytes or bytearray, not NoneType"
      [] body.kind = "badjson" -> "Expecting value: line 1 column 1 (char 0)"
      [] body.kind = "array" -> "'list' object has no attribute 'get'"
      [] OTHER -> ""

-----------------------------------------------------------------------------
(* backend/synonyms/index.py *)

DatamuseKeep == 5
ContextMinLen == 10

WordAlphabet == {97, 66, 1103, 32, 49}   \* a B я space 1

ApiWords == <<"glad", "joyful", "cheerful", "merry", "content", "elated", "upbeat">>

NoItems == <<>>

\* One element of the synonym API's JSON array
ApiItem(i) == [keys |-> {"word", "score"}, word |-> ApiWords[i], score |-> 100 - i]

ApiList(n) == [i \in 1..n |-> ApiItem(i)]

\* What urlopen(...).read() of the synonym API can turn out to be
DatamuseOutcomes ==
    {[status |-> st, data |-> "none", items |-> NoItems] : st \in {"neterr", "timeout"}}
    \cup {[status |-> "ok", data |-> d, items |-> NoItems] : d \in {"invalid", "object"}}
    \cup {[status |-> "ok", data |-> "list", items |-> ApiList(n)] : n \in 0..(DatamuseKeep + 1)}
    \cup {[status |-> "ok", data |-> "list",
           items |-> <<ApiItem(1), [keys |-> {"score"}, word |-> "", score |-> 7]>>],
          [status |-> "ok", data |-> "list",
           items |-> <<[keys |-> {"word"}, word |-> "glad", score |-> 0]>>]}

\* The same without the try/except of lines 11 and 21-23: a failed call raises
GetDatamuseSynonyms_NoExcept(w, l, outcome) ==
    IF l = Str(L_en)
    THEN IF outcome.status = "ok" /\ outcome.data = "list"
            /\ \A i \in 1..Len(outcome.items) : "word" \in outcome.items[i].keys
         THEN [called |-> TRUE, exc |-> "",
               result |-> [i \in 1..Len(outcome.items) |->
                             [word |-> outcome.items[i].word,
                              score |-> IF "score" \in outcome.items[i].keys
                                        THEN outcome.items[i].score ELSE 0]]]
         ELSE [called |-> TRUE, exc |-> "<urlopen error>", result |-> <<>>]
    ELSE [called |-> FALSE, exc |-> "", result |-> <<>>]

\* get_datamuse_synonyms(word, lang): whether the request was made, the exception that
\* escapes (none: lines 21-23 catch every Exception), and the list returned
GetDatamuseSynonyms(w, l, outcome) ==
    IF l = Str(L_en)
    THEN [called |-> TRUE, exc |-> "",
          result |->
            IF outcome.status = "ok" /\ outcome.data = "list"
               /\ \A i \in 1..Len(outcome.items) : "word" \in outcome.items[i].keys
            THEN [i \in 1..Len(outcome.items) |->
                    [word |-> outcome.items[i].word,
                     score |-> IF "score" \in outcome.items[i].keys
                               THEN outcome.items[i].score ELSE 0]]
            ELSE <<>>]
    ELSE [called |-> FALSE, exc |-> "", result |-> <<>>]

\* Elements a model reply's JSON array can hold
ObjEl(keys, w, c, src) == [t |-> "obj", keys |-> keys, word |-> w, context |-> c, source |-> src]

ReplyElements ==
    {ObjEl({"word", "context"}, "glad", "fits the sentence", ""),
     ObjEl({"word", "context", "source"}, "sunny", "mood", "datamuse"),
     ObjEl({"context"}, "", "no word here", ""),
     [t |-> "str", keys |-> {}, word |-> "glad", context |-> "", source |-> ""]}

\* A parsed JSON text: a list of elements, or something that is not a list
JsonList(items) == [t |-> "list", items |-> items]
JsonObject == [t |-> "object", items |-> <<>>]

ReplyValues == {JsonList(items) : items \in SeqsUpTo(ReplyElements, MaxReply)} \cup {JsonObject}

\* The message content as pieces: a code fence, the word json, a JSON text, other text
Fence == [k |-> "fence", val |-> JsonObject]
JsonTag == [k |-> "json", val |-> JsonObject]
Garbage == [k |-> "text", val |-> JsonObject]
JsonText(v) == [k |-> "value", val |-> v]

\* Values that are also sent wrapped in a Markdown code fence
FencedValues == {v \in ReplyValues : Len(v.items) <= 1}

ReplyContents ==
    {<<JsonText(v)>> : v \in ReplyValues}
    \cup {<<Fence, JsonTag, JsonText(v), Fence>> : v \in FencedValues}
    \cup {<<Fence, JsonText(v), Fence>> : v \in FencedValues}
    \cup {<<Garbage>>, <<Fence>>, <<Fence, JsonTag, JsonText(JsonList(<<>>))>>,
          <<JsonText(JsonList(<<>>)), Garbage>>}

\* What urlopen(...).read() of the language model can turn out to be
OpenAIOutcomes ==
    {[status |-> st, content |-> <<>>] : st \in {"neterr", "timeout", "badjson", "nochoices"}}
    \cup {[status |-> "ok", content |-> c] : c \in ReplyContents}

\* content.split('```')[1]: the pieces between the first fence and the next one
RECURSIVE UpToFence(_)
UpToFence(c) == IF c = <<>> \/ c[1] = Fence THEN <<>> ELSE <<c[1]>> \o UpToFence(Tail(c))

\* lines 59-62: strip a Markdown code fence and a leading "json"
StripFence(content) ==
    IF content # <<>> /\ content[1] = Fence
    THEN LET inner == UpToFence(Tail(content))
         IN  IF inner # <<>> /\ inner[1] = JsonTag THEN Tail(inner) ELSE inner
    ELSE content

\* json.loads(content): [ok, val]
JsonLoads(content) ==
    IF Len(content) = 1 /\ content[1].k = "value"
    THEN [ok |-> TRUE, val |-> content[1].val]
    ELSE [ok |-> FALSE, val |-> JsonObject]

\* get_contextual_synonyms(word, context, lang): whether the request was made, the exception
\* that escapes (none: lines 66-68 catch every Exception), and the list returned
GetContextualSynonyms(w, c, l, key, outcome) ==
    IF ~key.set \/ key.value = ""
    THEN [called |-> FALSE, exc |-> "", result |-> <<>>]
    ELSE [called |-> TRUE, exc |-> "",
          result |->
            IF outcome.status # "ok" THEN <<>>
            ELSE LET parsed == JsonLoads(StripFence(outcome.content))
                 IN  IF parsed.ok /\ parsed.val.t = "list" THEN parsed.val.items ELSE <<>>]

IsCyrillic(c) == c >= 1024 /\ c <= 1279
IsLatin(c) == LowerChar(c) >= 97 /\ LowerChar(c) <= 122

\* sum(1 for c in text if ...)
cyrillic_chars(text) == Cardinality({i \in 1..Len(text) : IsCyrillic(text[i])})
latin_chars(text) == Cardinality({i \in 1..Len(text) : IsLatin(text[i])})

\* The same with >= for >
DetectLanguage_TieIsRussian(text) ==
    IF cyrillic_chars(text) >= latin_chars(text) THEN L_ru ELSE L_en

\* detect_language(text)
DetectLanguage(text) ==
    IF cyrillic_chars(text) > latin_chars(text) THEN L_ru ELSE L_en

\* Request bodies of the synonyms handler
WordValues == {Absent, Null, Num(5)} \cup {Str(w) : w \in SeqsUpTo(WordAlphabet, MaxWordLen)}

ContextValues ==
    {Absent, Null, Num(42)}
    \cup {Str(Repeat(99, n)) : n \in {0, ContextMinLen, ContextMinLen + 1}}

LangValues == {Absent, Str(<<>>), Str(L_en), Str(L_ru), Str(L_EN)}

SynBodies ==
    {[kind |-> k, word |-> Absent, context |-> Absent, lang |-> Absent]
        : k \in {"absent", "none", "badjson", "array"}}
    \cup {[kind |-> "object", word |-> w, context |-> c, lang |-> l]
            : w \in WordValues, c \in ContextValues, l \in LangValues}

NoKey == [set |-> FALSE, value |-> ""]
ApiKeys == {NoKey, [set |-> TRUE, value |-> ""], [set |-> TRUE, value |-> "sk-test"]}

NoDatamuseReply == [status |-> "none", data |-> "none", items |-> NoItems]
NoOpenAIReply == [status |-> "none", content |-> <<>>]
NoRender == [status |-> "none", bytes |-> <<>>]
NoReplies == [datamuse |-> NoDatamuseReply, openai |-> NoOpenAIReply, render |-> NoRender]
NoDoc ==
    [text |-> Absent, replacements |-> [t |-> "absent", items |-> <<>>], export_format |-> <<>>,
     file_bytes |-> <<>>, content_type |-> "", filename |-> <<>>, clock |-> 0, via |-> "none"]

\* The handler is invoked with some event under some environment
SynReceive ==
    /\ pc = "idle"
    /\ \E m \in Methods \cup {NoMethod}, b \in SynBodies, key \in ApiKeys :
          /\ event' = [httpMethod |-> m, body |-> b]
          /\ env' = [OPENAI_API_KEY |-> key, reportlab |-> FALSE, docx |-> FALSE]
    /\ handlerName' = "synonyms"
    /\ pc' = "entry"
    /\ word' = <<>>
    /\ lang' = Absent
    /\ synonyms' = <<>>
    /\ calls' = <<>>
    /\ replies' = NoReplies
    /\ doc' = NoDoc
    /\ response' = NoResponse

\* lines 87-98
SynOptions ==
    /\ handlerName = "synonyms" /\ pc = "entry"
    /\ Method(event, "GET") = "OPTIONS"
    /\ response' = PreflightResponse("GET, POST, OPTIONS")
    /\ pc' = "done"
    /\ UNCHANGED <<handlerName, event, env, word, lang, synonyms, calls, replies, doc>>

\* lines 163-171
SynMethodNotAllowed ==
    /\ handlerName = "synonyms" /\ pc = "entry"
    /\ Method(event, "GET") \notin {"OPTIONS", "POST"}
    /\ response' = ErrorResponse(405, "Method not allowed")
    /\ pc' = "done"
    /\ UNCHANGED <<handlerName, event, env, word, lang, synonyms, calls, replies, doc>>

\* lines 102-103: the exception raised while reading the word, or ""
SynParseError(body) ==
    IF BodyError(body) # "" THEN BodyError(body)
    ELSE CASE Get(body, "word", Str(<<>>)).t = "null" -> "'NoneType' object has no attribute 'strip'"
           [] Get(body, "word", Str(<<>>)).t = "num" -> "'int' object has no attribute 'strip'"
           [] OTHER -> ""

\* line 103 without the strip()
NormalizedWord_NoStrip(body) == StrLower(Get(body, "word", Str(<<>>)).v)

\* line 103: body_data.get('word', '').strip().lower()
NormalizedWord(body) == StrLower(StrStrip(Get(body, "word", Str(<<>>)).v))

\* lines 102-116: parse the body, normalise the word, reject an empty one
SynParse ==
    /\ handlerName = "synonyms" /\ pc = "entry"
    /\ Method(event, "GET") = "POST"
    /\ LET body == event.body
           w == NormalizedWord(body)
       IN  IF SynParseError(body) # ""
           THEN /\ response' = ErrorResponse(500, SynParseError(body))
                /\ pc' = "done"
                /\ UNCHANGED <<word, lang>>
           ELSE /\ word' = w
                /\ lang' = Get(body, "lang", Str(<<>>))
                /\ IF w = <<>>
                   THEN /\ response' = ErrorResponse(400, "Word is required")
                        /\ pc' = "done"
                   ELSE /\ pc' = "validated"
                        /\ UNCHANGED response
    /\ UNCHANGED <<handlerName, event, env, synonyms, calls, replies, doc>>

\* lines 118-119
SynDetect ==
    /\ handlerName = "synonyms" /\ pc = "validated"
    /\ lang' = IF ~Truthy(lang) THEN Str(DetectLanguage(word)) ELSE lang
    /\ pc' = "detected"
    /\ UNCHANGED <<handlerName, event, env, word, synonyms, calls, replies, doc, response>>

\* line 127 without the [:5]
FirstResults_All(results) == results

\* line 127: datamuse_results[:5]
FirstResults(results) == SubSeq(results, 1, IF Len(results) < DatamuseKeep THEN Len(results) ELSE DatamuseKeep)

\* lines 125-128: the entries built from the synonym API's results
DatamuseEntries(results) ==
    [i \in 1..Len(FirstResults(results)) |->
        [keys |-> {"word", "context", "source"}, word |-> results[i].word,
         context |-> "general synonym", source |-> "datamuse"]]

\* lines 123-128
SynDatamuse ==
    /\ handlerName = "synonyms" /\ pc = "detected"
    /\ IF lang = Str(L_en)
       THEN \E outcome \in DatamuseOutcomes :
              LET r == GetDatamuseSynonyms(word, lang, outcome)
              IN  /\ calls' = IF r.called THEN Append(calls, "datamuse") ELSE calls
                  /\ replies' = [replies EXCEPT !.datamuse = outcome]
                  /\ IF r.exc # ""
                     THEN /\ response' = ErrorResponse(500, r.exc)
                          /\ pc' = "done"
                          /\ UNCHANGED synonyms
                     ELSE /\ synonyms' = synonyms \o DatamuseEntries(r.result)
                          /\ pc' = "lookedUp"
                          /\ UNCHANGED response
       ELSE /\ pc' = "lookedUp"
            /\ UNCHANGED <<calls, replies, synonyms, response>>
    /\ UNCHANGED <<handlerName, event, env, word, lang, doc>>

\* lines 132-135: keep the dicts that have a word, tagged contextual
RECURSIVE ContextualEntries(_)
ContextualEntries(contextual) ==
    IF contextual = <<>> THEN <<>>
    ELSE LET syn == contextual[1]
         IN  (IF syn.t = "obj" /\ "word" \in syn.keys
              THEN <<[keys |-> syn.keys \cup {"source"}, word |-> syn.word,
                      context |-> syn.context, source |-> "contextual"]>>
              ELSE <<>>) \o ContextualEntries(Tail(contextual))

\* line 130 with >= for >
WantsContext_AtLeast(context) ==
    CASE context.t = "num" /\ Truthy(context) -> "raise"
      [] context.t = "str" /\ Truthy(context) /\ Len(context.v) >= ContextMinLen -> "yes"
      [] OTHER -> "no"

\* line 130: `context and len(context) > 10`: "raise", "yes" or "no"
WantsContext(context) ==
    CASE context.t = "num" /\ Truthy(context) -> "raise"
      [] context.t = "str" /\ Truthy(context) /\ Len(context.v) > ContextMinLen -> "yes"
      [] OTHER -> "no"

\* lines 130-135
SynContextual ==
    /\ handlerName = "synonyms" /\ pc = "lookedUp"
    /\ LET context == Get(event.body, "context", Str(<<>>))
       IN  CASE WantsContext(context) = "raise" ->
                  /\ response' = ErrorResponse(500, "object of type 'int' has no len()")
                  /\ pc' = "done"
                  /\ UNCHANGED <<calls, replies, synonyms>>
             [] WantsContext(context) = "yes" ->
                  /\ \E outcome \in OpenAIOutcomes :
                        LET r == GetContextualSynonyms(word, context, lang, env.OPENAI_API_KEY, outcome)
                        IN  /\ calls' = IF r.called THEN Append(calls, "openai") ELSE calls
                            /\ replies' = IF r.called THEN [replies EXCEPT !.openai = outcome] ELSE replies
                            /\ IF r.exc # ""
                               THEN /\ response' = ErrorResponse(500, r.exc)
                                    /\ pc' = "done"
                                    /\ UNCHANGED synonyms
                               ELSE /\ synonyms' = synonyms \o ContextualEntries(r.result)
                                    /\ pc' = "enriched"
                                    /\ UNCHANGED response
             [] OTHER ->
                  /\ pc' = "enriched"
                  /\ UNCHANGED <<calls, replies, synonyms, response>>
    /\ UNCHANGED <<handlerName, event, env, word, lang, doc>>

\* lines 137-150
SynRespond ==
    /\ handlerName = "synonyms" /\ pc = "enriched"
    /\ response' = [statusCode |-> 200, headers |-> JsonHeaders,
                    body |-> [kind |-> "synonyms", word |-> word, language |-> lang,
                              synonyms |-> synonyms, count |-> Len(synonyms)],
                    isBase64Encoded |-> FALSE]
    /\ pc' = "done"
    /\ UNCHANGED <<handlerName, event, env, word, lang, synonyms, calls, replies, doc>>

-----------------------------------------------------------------------------
(* backend/export/index.py *)

F_pdf == <<112, 100, 102>>         \* 'pdf'
F_PDF == <<80, 68, 70>>            \* 'PDF'
F_docx == <<100, 111, 99, 120>>    \* 'docx'
F_DocX == <<68, 111, 99, 88>>      \* 'DocX'
F_txt == <<116, 120, 116>>         \* 'txt'

S_Title == <<83, 89, 78, 65, 80, 83, 69, 32, 45, 32, 69, 88, 80, 79, 82, 84, 69, 68, 32, 68, 79, 67, 85, 77, 69, 78, 84, 10>>   \* 'SYNAPSE - EXPORTED DOCUMENT\n'
S_Generated == <<71, 101, 110, 101, 114, 97, 116, 101, 100, 58, 32>>   \* 'Generated: '
S_MainText == <<10, 10, 77, 65, 73, 78, 32, 84, 69, 88, 84, 58, 10>>   \* '\n\nMAIN TEXT:\n'
S_AfterText == <<10, 10>>          \* '\n\n'
S_History == <<10, 82, 69, 80, 76, 65, 67, 69, 77, 69, 78, 84, 32, 72, 73, 83, 84, 79, 82, 89, 58, 10>>   \* '\nREPLACEMENT HISTORY:\n'
S_Indent == <<32, 32>>             \* '  '
S_Arrow == <<32, 8594, 32>>        \* ' → '
S_Open == <<32, 40>>               \* ' ('
S_Close == <<41, 10>>              \* ')\n'
S_FilePrefix == <<115, 121, 110, 97, 112, 115, 101, 45, 101, 120, 112, 111, 114, 116, 45>>   \* 'synapse-export-'
S_ExtPdf == <<46, 112, 100, 102>>  \* '.pdf'
S_ExtDocx == <<46, 100, 111, 99, 120>>   \* '.docx'
S_Date == <<50, 48, 50, 54, 45, 49, 49, 45, 48, 50>>   \* '2026-11-02'
S_DateCompact == <<50, 48, 50, 54, 49, 49, 48, 50>>    \* '20261102'

CT_Pdf == "application/pdf"
CT_Docx == "application/vnd.openxmlformats-officedocument.wordprocessingml.document"

\* ''.join(ss), by halves
RECURSIVE Flatten(_)
Flatten(ss) ==
    CASE Len(ss) = 0 -> <<>>
      [] Len(ss) = 1 -> ss[1]
      [] OTHER -> LET h == Len(ss) \div 2
                  IN  Flatten(SubSeq(ss, 1, h)) \o Flatten(SubSeq(ss, h + 1, Len(ss)))

TwoDigits(n) == <<48 + (n \div 10), 48 + (n % 10)>>

\* datetime.now().strftime('%Y-%m-%d %H:%M:%S'), the clock in seconds since midnight
StampLong(clock) ==
    S_Date \o <<32>> \o TwoDigits(clock \div 3600) \o <<58>>
           \o TwoDigits((clock \div 60) % 60) \o <<58>> \o TwoDigits(clock % 60)

\* datetime.now().strftime("%Y%m%d-%H%M%S")
StampCompact(clock) ==
    S_DateCompact \o <<45>> \o TwoDigits(clock \div 3600)
                  \o TwoDigits((clock \div 60) % 60) \o TwoDigits(clock % 60)

IsSurrogate(c) == c >= 55296 /\ c <= 57343

\* str.encode('utf-8') of one code point
Utf8Char(c) ==
    CASE c < 128 -> <<c>>
      [] c >= 128 /\ c < 2048 -> <<192 + (c \div 64), 128 + (c % 64)>>
      [] c >= 2048 /\ c < 65536 -> <<224 + (c \div 4096), 128 + ((c \div 64) % 64), 128 + (c % 64)>>
      [] OTHER -> <<240 + (c \div 262144), 128 + ((c \div 4096) % 64), 128 + ((c \div 64) % 64), 128 + (c % 64)>>

\* str.encode('utf-8'): raises UnicodeEncodeError on a lone surrogate
Utf8Encodable(s) == \A i \in 1..Len(s) : ~IsSurrogate(s[i])
Utf8Encode(s) == Flatten([i \in 1..Len(s) |-> Utf8Char(s[i])])

\* The base64 alphabet: the character of a 6-bit value
B64Char(v) ==
    CASE v < 26 -> 65 + v
      [] v >= 26 /\ v < 52 -> 97 + (v - 26)
      [] v >= 52 /\ v < 62 -> 48 + (v - 52)
      [] v = 62 -> 43
      [] OTHER -> 47

\* base64.b64encode(bytes).decode('utf-8'): every group of three bytes becomes four
\* characters, the last group padded with '='; the groups are taken by halves
RECURSIVE B64Encode(_)
B64Encode(b) ==
    CASE Len(b) = 0 -> <<>>
      [] Len(b) = 1 -> <<B64Char(b[1] \div 4), B64Char((b[1] % 4) * 16), 61, 61>>
      [] Len(b) = 2 -> <<B64Char(b[1] \div 4), B64Char((b[1] % 4) * 16 + (b[2] \div 16)),
                         B64Char((b[2] % 16) * 4), 61>>
      [] Len(b) = 3 -> <<B64Char(b[1] \div 4), B64Char((b[1] % 4) * 16 + (b[2] \div 16)),
                         B64Char((b[2] % 16) * 4 + (b[3] \div 64)), B64Char(b[3] % 64)>>
      [] OTHER -> LET h == 3 * (((Len(b) \div 3) + 1) \div 2)
                  IN  B64Encode(SubSeq(b, 1, h)) \o B64Encode(SubSeq(b, h + 1, Len(b)))

\* f"{text}" of a JSON value
Format(j) == IF j.t = "num" THEN <<48 + j.v[1]>> ELSE j.v

\* rep.get(key, '') of a replacement record
RepGet(rep, key) == IF key \in rep.keys THEN rep[key] ELSE <<>>

\* The same if a record that is not a dict were skipped instead of raising
RepsError_SkipsBadRecords(reps) == IF reps.t = "num" THEN "'int' object is not iterable" ELSE ""

\* `if replacements:` and `for rep in replacements: rep.get(...)`: the exception raised, or ""
RepsError(reps) ==
    CASE reps.t = "num" -> "'int' object is not iterable"
      [] reps.t = "list" /\ \E i \in 1..Len(reps.items) : reps.items[i].t # "obj" ->
            "'str' object has no attribute 'get'"
      [] OTHER -> ""

\* Python truth value of the replacements value
RepsTruthy(reps) == (reps.t = "num") \/ (reps.t = "list" /\ reps.items # <<>>)

\* lines 94-95: one line of the replacement history
RepLine(rep) ==
    S_Indent \o RepGet(rep, "original") \o S_Arrow \o RepGet(rep, "replacement")
             \o S_Open \o RepGet(rep, "timestamp") \o S_Close

\* lines 85-95: the text of the flat document
FallbackContent(text, reps, clock) ==
    S_Title \o S_Generated \o StampLong(clock) \o S_MainText \o Format(text) \o S_AfterText
    \o (IF RepsTruthy(reps) /\ RepsError(reps) = ""
        THEN S_History \o Flatten([i \in 1..Len(reps.items) |-> RepLine(reps.items[i])])
        ELSE <<>>)

\* create_simple_pdf_fallback(text, replacements): [exc, bytes, via]
CreateSimplePdfFallback(text, reps, clock) ==
    CASE RepsTruthy(reps) /\ RepsError(reps) # "" ->
            [exc |-> RepsError(reps), bytes |-> <<>>, via |-> "fallback"]
      [] ~Utf8Encodable(FallbackContent(text, reps, clock)) ->
            [exc |-> "'utf-8' codec can't encode character: surrogates not allowed",
             bytes |-> <<>>, via |-> "fallback"]
      [] OTHER -> [exc |-> "", bytes |-> Utf8Encode(FallbackContent(text, reps, clock)), via |-> "fallback"]

\* The statements of a rich build routine that are this repository's own:
\* text.split('\n') and the loop over replacements; the exception raised, or ""
RichPreludeError(text, reps) ==
    CASE text.t # "str" -> "'int' object has no attribute 'split'"
      [] RepsTruthy(reps) /\ RepsError(reps) # "" -> RepsError(reps)
      [] OTHER -> ""

\* What the rendering library can do with a document: raise, or return some bytes
RichOutcomes ==
    {[status |-> "raise", bytes |-> <<>>]}
    \cup {[status |-> "ok", bytes |-> b] : b \in {<<37, 80, 68, 70>>, <<80, 75, 3, 4, 20>>, <<37, 80, 68, 70, 45, 49>>}}

\* create_pdf(text, replacements): [exc, bytes, via]; via is "fallback" after an ImportError,
\* "rich" when the rendering library ran, "prelude" when the routine raised before it ran
CreatePdf(e, text, reps, clock, rich) ==
    IF ~e.reportlab THEN CreateSimplePdfFallback(text, reps, clock)
    ELSE CASE RichPreludeError(text, reps) # "" ->
                [exc |-> RichPreludeError(text, reps), bytes |-> <<>>, via |-> "prelude"]
           [] rich.status = "raise" -> [exc |-> "render failed", bytes |-> <<>>, via |-> "rich"]
           [] OTHER -> [exc |-> "", bytes |-> rich.bytes, via |-> "rich"]

\* The same without the except ImportError of lines 150-151
CreateDocx_NoFallback(e, text, reps, clock, rich) ==
    IF ~e.docx THEN [exc |-> "No module named 'docx'", bytes |-> <<>>, via |-> "prelude"]
    ELSE CASE RichPreludeError(text, reps) # "" ->
                [exc |-> RichPreludeError(text, reps), bytes |-> <<>>, via |-> "prelude"]
           [] rich.status = "raise" -> [exc |-> "render failed", bytes |-> <<>>, via |-> "rich"]
           [] OTHER -> [exc |-> "", bytes |-> rich.bytes, via |-> "rich"]

\* create_docx(text, replacements): [exc, bytes, via]
CreateDocx(e, text, reps, clock, rich) ==
    IF ~e.docx THEN CreateSimplePdfFallback(text, reps, clock)
    ELSE CASE RichPreludeError(text, reps) # "" ->
                [exc |-> RichPreludeError(text, reps), bytes |-> <<>>, via |-> "prelude"]
           [] rich.status = "raise" -> [exc |-> "render failed", bytes |-> <<>>, via |-> "rich"]
           [] OTHER -> [exc |-> "", bytes |-> rich.bytes, via |-> "rich"]

TextAlphabet == {120, 1103, 55296}   \* x я and a lone surrogate

TextValues == {Absent, Null, Num(7)} \cup {Str(t) : t \in SeqsUpTo(TextAlphabet, MaxTextLen)}

FormatValues ==
    {Absent, Null, Num(1)} \cup {Str(f) : f \in {<<>>, F_pdf, F_PDF, F_docx, F_DocX, F_txt}}

RepObj(keys, o, r, t) == [t |-> "obj", keys |-> keys, original |-> o, replacement |-> r, timestamp |-> t]

RepRecords ==
    {RepObj({"original", "replacement", "timestamp"}, <<97>>, <<1103>>, <<49, 50>>),
     RepObj({"original"}, <<98>>, <<>>, <<>>),
     [t |-> "str", keys |-> {}, original |-> <<>>, replacement |-> <<>>, timestamp |-> <<>>]}

NoReps == [t |-> "absent", items |-> <<>>]

RepsValues ==
    {NoReps, [t |-> "null", items |-> <<>>], [t |-> "num", items |-> <<>>]}
    \cup {[t |-> "list", items |-> r] : r \in SeqsUpTo(RepRecords, MaxReps)}

ExpBodies ==
    {[kind |-> k, text |-> Absent, replacements |-> NoReps, format |-> Absent]
        : k \in {"absent", "none", "badjson", "array"}}
    \cup {[kind |-> "object", text |-> t, replacements |-> r, format |-> f]
            : t \in TextValues, r \in RepsValues, f \in FormatValues}

Clocks == {59, 60}

\* The handler is invoked with some event under some environment
ExpReceive ==
    /\ pc = "idle"
    /\ \E m \in Methods \cup {NoMethod}, b \in ExpBodies, rl \in BOOLEAN, dx \in BOOLEAN :
          /\ event' = [httpMethod |-> m, body |-> b]
          /\ env' = [OPENAI_API_KEY |-> NoKey, reportlab |-> rl, docx |-> dx]
    /\ handlerName' = "export"
    /\ pc' = "entry"
    /\ word' = <<>>
    /\ lang' = Absent
    /\ synonyms' = <<>>
    /\ calls' = <<>>
    /\ replies' = NoReplies
    /\ doc' = NoDoc
    /\ response' = NoResponse

\* lines 161-172
ExpOptions ==
    /\ handlerName = "export" /\ pc = "entry"
    /\ Method(event, "POST") = "OPTIONS"
    /\ response' = PreflightResponse("POST, OPTIONS")
    /\ pc' = "done"
    /\ UNCHANGED <<handlerName, event, env, word, lang, synonyms, calls, replies, doc>>

\* lines 239-247
ExpMethodNotAllowed ==
    /\ handlerName = "export" /\ pc = "entry"
    /\ Method(event, "POST") \notin {"OPTIONS", "POST"}
    /\ response' = ErrorResponse(405, "Method not allowed")
    /\ pc' = "done"
    /\ UNCHANGED <<handlerName, event, env, word, lang, synonyms, calls, replies, doc>>

\* lines 176-179: the exception raised while reading the body, or ""
ExpParseError(body) ==
    IF BodyError(body) # "" THEN BodyError(body)
    ELSE CASE Get(body, "format", Str(F_pdf)).t = "null" -> "'NoneType' object has no attribute 'lower'"
           [] Get(body, "format", Str(F_pdf)).t = "num" -> "'int' object has no attribute 'lower'"
           [] OTHER -> ""

\* line 179 without the lower()
ExportFormat_NoLower(body) == Get(body, "format", Str(F_pdf)).v

\* line 179: body_data.get('format', 'pdf').lower()
ExportFormat(body) == StrLower(Get(body, "format", Str(F_pdf)).v)

\* lines 176-190: parse the body, lower-case the format, reject an empty text
ExpParse ==
    /\ handlerName = "export" /\ pc = "entry"
    /\ Method(event, "POST") = "POST"
    /\ LET body == event.body
       IN  IF ExpParseError(body) # ""
           THEN /\ response' = ErrorResponse(500, ExpParseError(body))
                /\ pc' = "done"
                /\ UNCHANGED doc
           ELSE /\ doc' = [doc EXCEPT !.text = Get(body, "text", Str(<<>>)),
                                      !.replacements = body.replacements,
                                      !.export_format = ExportFormat(body)]
                /\ IF ~Truthy(Get(body, "text", Str(<<>>)))
                   THEN /\ response' = ErrorResponse(400, "Text is required")
                        /\ pc' = "done"
                   ELSE /\ pc' = "validated"
                        /\ UNCHANGED response
    /\ UNCHANGED <<handlerName, event, env, word, lang, synonyms, calls, replies>>

\* lines 192-209: dispatch on the format and build the document
ExpBuild ==
    /\ handlerName = "export" /\ pc = "validated"
    /\ CASE doc.export_format = F_pdf ->
              \E clock \in Clocks, later \in Clocks, rich \in RichOutcomes :
                 LET built == CreatePdf(env, doc.text, doc.replacements, clock, rich)
                 IN  /\ later >= clock
                     /\ calls' = Append(calls, "create_pdf")
                     /\ replies' = [replies EXCEPT !.render = IF built.via = "rich" THEN rich ELSE NoRender]
                     /\ IF built.exc # ""
                        THEN /\ response' = ErrorResponse(500, built.exc)
                             /\ pc' = "done"
                             /\ doc' = [doc EXCEPT !.clock = clock, !.via = built.via]
                        ELSE /\ doc' = [doc EXCEPT !.file_bytes = built.bytes,
                                                   !.content_type = CT_Pdf,
                                                   !.filename = S_FilePrefix \o StampCompact(later) \o S_ExtPdf,
                                                   !.clock = clock, !.via = built.via]
                             /\ pc' = "built"
                             /\ UNCHANGED response
         [] doc.export_format = F_docx ->
              \E clock \in Clocks, later \in Clocks, rich \in RichOutcomes :
                 LET built == CreateDocx(env, doc.text, doc.replacements, clock, rich)
                 IN  /\ later >= clock
                     /\ calls' = Append(calls, "create_docx")
                     /\ replies' = [replies EXCEPT !.render = IF built.via = "rich" THEN rich ELSE NoRender]
                     /\ IF built.exc # ""
                        THEN /\ response' = ErrorResponse(500, built.exc)
                             /\ pc' = "done"
                             /\ doc' = [doc EXCEPT !.clock = clock, !.via = built.via]
                        ELSE /\ doc' = [doc EXCEPT !.file_bytes = built.bytes,
                                                   !.content_type = CT_Docx,
                                                   !.filename = S_FilePrefix \o StampCompact(later) \o S_ExtDocx,
                                                   !.clock = clock, !.via = built.via]
                             /\ pc' = "built"
                             /\ UNCHANGED response
         [] OTHER ->
              /\ response' = ErrorResponse(400, "Invalid format. Use pdf or docx")
              /\ pc' = "done"
              /\ UNCHANGED <<calls, replies, doc>>
    /\ UNCHANGED <<handlerName, event, env, word, lang, synonyms>>

\* lines 211-226
ExpRespond ==
    /\ handlerName = "export" /\ pc = "built"
    /\ response' = [statusCode |-> 200, headers |-> JsonHeaders,
                    body |-> [kind |-> "file", filename |-> doc.filename,
                              content |-> B64Encode(doc.file_bytes),
                              contentType |-> doc.content_type,
                              size |-> Len(doc.file_bytes)],
                    isBase64Encoded |-> FALSE]
    /\ pc' = "done"
    /\ UNCHANGED <<handlerName, event, env, word, lang, synonyms, calls, replies, doc>>

NoEvent == [httpMethod |-> NoMethod, body |-> [kind |-> "absent"]]
NoEnv == [OPENAI_API_KEY |-> NoKey, reportlab |-> FALSE, docx |-> FALSE]

\* No invocation is running: the handlers keep no state between invocations
Idle ==
    /\ handlerName = "none"
    /\ pc = "idle"
    /\ event = NoEvent
    /\ env = NoEnv
    /\ word = <<>>
    /\ lang = Absent
    /\ synonyms = <<>>
    /\ calls = <<>>
    /\ replies = NoReplies
    /\ doc = NoDoc
    /\ response = NoResponse

Init == Idle

\* The handler has returned its response; nothing of the invocation is kept
Return ==
    /\ pc = "done"
    /\ handlerName' = "none"
    /\ pc' = "idle"
    /\ event' = NoEvent
    /\ env' = NoEnv
    /\ word' = <<>>
    /\ lang' = Absent
    /\ synonyms' = <<>>
    /\ calls' = <<>>
    /\ replies' = NoReplies
    /\ doc' = NoDoc
    /\ response' = NoResponse

Next ==
    \/ SynReceive
    \/ SynOptions
    \/ SynMethodNotAllowed
    \/ SynParse
    \/ SynDetect
    \/ SynDatamuse
    \/ SynContextual
    \/ SynRespond
    \/ ExpReceive
    \/ ExpOptions
    \/ ExpMethodNotAllowed
    \/ ExpParse
    \/ ExpBuild
    \/ ExpRespond
    \/ Return

Spec == Init /\ [][Next]_vars

\* The synonyms function alone
SynNext ==
    \/ SynReceive
    \/ SynOptions
    \/ SynMethodNotAllowed
    \/ SynParse
    \/ SynDetect
    \/ SynDatamuse
    \/ SynContextual
    \/ SynRespond
    \/ Return

SynSpec == Init /\ [][SynNext]_vars

\* The export function alone
ExpNext ==
    \/ ExpReceive
    \/ ExpOptions
    \/ ExpMethodNotAllowed
    \/ ExpParse
    \/ ExpBuild
    \/ ExpRespond
    \/ Return

ExpSpec == Init /\ [][ExpNext]_vars

-----------------------------------------------------------------------------
(* Properties of the export handler *)

ExpDone == handlerName = "export" /\ pc = "done"

\* A POST whose body parses to a JSON object (an absent body is read as '{}')
ExpPostObject ==
    /\ handlerName = "export"
    /\ event.httpMethod = "POST"
    /\ event.body.kind \in {"object", "absent"}

\* The request's text is a non-empty string
TextGiven == event.body.text.t = "str" /\ event.body.text.v # <<>>

EndsWith(s, suffix) ==
    Len(s) >= Len(suffix) /\ SubSeq(s, Len(s) - Len(suffix) + 1, Len(s)) = suffix

\* The format a request asks for, read off the request itself:
\* "pdf" (also when absent), "docx", or "other"
RequestedFormat ==
    CASE event.body.format = Absent -> "pdf"
      [] event.body.format.t = "str" /\ event.body.format.v \in {F_pdf, F_PDF} -> "pdf"
      [] event.body.format.t = "str" /\ event.body.format.v \in {F_docx, F_DocX} -> "docx"
      [] OTHER -> "other"

IsFile(ct, ext) ==
    /\ response.statusCode = 200
    /\ response.body.kind = "file"
    /\ response.body.contentType = ct
    /\ EndsWith(response.body.filename, ext)

\* What the build routine of the requested format did in this invocation
BuildResult ==
    IF RequestedFormat = "docx"
    THEN CreateDocx(env, doc.text, doc.replacements, doc.clock, replies.render)
    ELSE CreatePdf(env, doc.text, doc.replacements, doc.clock, replies.render)

\* C1 (as claimed): a POST whose JSON body has an empty or absent text is answered
\* 400 'Text is required' whatever the format field holds, and no build routine runs.
C1_EmptyTextRejected ==
    (ExpDone /\ ExpPostObject /\ event.body.text \in {Absent, Str(<<>>)})
        => (response = ErrorResponse(400, "Text is required") /\ calls = <<>>)

\* C2 (as claimed): with a non-empty text, format pdf (any case, or absent) gives 200
\* application/pdf with a .pdf filename, docx gives 200 wordprocessingml with a .docx
\* filename, every other format string gives 400 'Invalid format' with nothing built.
C2_FormatAlwaysServed ==
    (ExpDone /\ ExpPostObject /\ TextGiven /\ event.body.format.t \in {"absent", "str"})
        => CASE RequestedFormat = "pdf" -> IsFile(CT_Pdf, S_ExtPdf)
             [] RequestedFormat = "docx" -> IsFile(CT_Docx, S_ExtDocx)
             [] OTHER -> response = ErrorResponse(400, "Invalid format. Use pdf or docx") /\ calls = <<>>

\* C2 (amended): with a non-empty text the format is matched case-insensitively and
\* defaults to pdf; pdf runs create_pdf only and docx runs create_docx only, giving 200
\* with the format's contentType and filename extension when the build routine returns
\* bytes and 500 with the exception's message when it raises; every other format string
\* gives 400 'Invalid format' with nothing built.
C2_FormatDispatch ==
    (ExpDone /\ ExpPostObject /\ TextGiven /\ event.body.format.t \in {"absent", "str"})
        => CASE RequestedFormat = "pdf" ->
                  /\ calls = <<"create_pdf">>
                  /\ IF BuildResult.exc = "" THEN IsFile(CT_Pdf, S_ExtPdf)
                     ELSE response = ErrorResponse(500, BuildResult.exc)
             [] RequestedFormat = "docx" ->
                  /\ calls = <<"create_docx">>
                  /\ IF BuildResult.exc = "" THEN IsFile(CT_Docx, S_ExtDocx)
                     ELSE response = ErrorResponse(500, BuildResult.exc)
             [] OTHER -> response = ErrorResponse(400, "Invalid format. Use pdf or docx") /\ calls = <<>>

\* C2 witness: a request for 'DocX' was served as a .docx file
C2_Witness ==
    /\ ExpDone /\ ExpPostObject
    /\ event.body.format = Str(F_DocX)
    /\ IsFile(CT_Docx, S_ExtDocx)

\* The renderer of the requested format cannot be imported
RendererMissing ==
    \/ RequestedFormat = "pdf" /\ ~env.reportlab
    \/ RequestedFormat = "docx" /\ ~env.docx

\* The flat document of a request: title, timestamp, body, then the replacement list
FlatBytes == Utf8Encode(FallbackContent(event.body.text, event.body.replacements, doc.clock))

ServedFlat ==
    /\ response.statusCode = 200
    /\ response.body.kind = "file"
    /\ doc.file_bytes = FlatBytes
    /\ response.body.content = B64Encode(FlatBytes)
    /\ response.body.size = Len(FlatBytes)

\* replacements is absent, null or a list of objects
RepsWellFormed ==
    \/ event.body.replacements.t \in {"absent", "null"}
    \/ /\ event.body.replacements.t = "list"
       /\ \A i \in 1..Len(event.body.replacements.items) : event.body.replacements.items[i].t = "obj"

B64Value(c) ==
    CASE c >= 65 /\ c <= 90 -> c - 65
      [] c >= 97 /\ c <= 122 -> c - 71
      [] c >= 48 /\ c <= 57 -> c + 4
      [] c = 43 -> 62
      [] OTHER -> 63

\* The bytes a base64 text stands for
B64Quad(s, g) ==
    LET a == B64Value(s[4 * g - 3])
        b == B64Value(s[4 * g - 2])
        c == B64Value(s[4 * g - 1])
        d == B64Value(s[4 * g])
    IN  CASE s[4 * g - 1] = 61 -> <<a * 4 + (b \div 16)>>
          [] s[4 * g - 1] # 61 /\ s[4 * g] = 61 ->
                <<a * 4 + (b \div 16), (b % 16) * 16 + (c \div 4)>>
          [] OTHER -> <<a * 4 + (b \div 16), (b % 16) * 16 + (c \div 4), (c % 4) * 64 + d>>

\* Groups lo..hi of a base64 text
RECURSIVE B64Groups(_, _, _)
B64Groups(s, lo, hi) ==
    CASE lo > hi -> <<>>
      [] lo = hi -> B64Quad(s, lo)
      [] OTHER -> LET mid == (lo + hi) \div 2
                  IN  B64Groups(s, lo, mid) \o B64Groups(s, mid + 1, hi)

B64Decode(s) == B64Groups(s, 1, Len(s) \div 4)

\* The request reaches a build routine: a POST with a JSON object body, a truthy text
\* and a format that lower-cases to pdf or docx
ReachesBuild ==
    /\ handlerName = "export"
    /\ Method(event, "POST") = "POST"
    /\ event.body.kind \in {"object", "absent"}
    /\ Truthy(event.body.text)
    /\ event.body.format.t \in {"absent", "str"}
    /\ RequestedFormat # "other"

HasBadRecord ==
    /\ event.body.replacements.t = "list"
    /\ \E i \in 1..Len(event.body.replacements.items) : event.body.replacements.items[i].t # "obj"

\* C10: every invocation of the export handler ends in a response with status 200,
\* 400, 405 or 500; a body that is not a JSON object, a renderer failure and a
\* replacement record that is not an object are answered 500 with the exception's
\* message; a 200 file response carries exactly the bytes a build routine returned,
\* base64-encoded, with size their number.
C10_ExportResponses ==
    ExpDone =>
        /\ response.statusCode \in {200, 400, 405, 500}
        /\ (Method(event, "POST") = "POST" /\ event.body.kind \in {"none", "badjson", "array"})
              => response = ErrorResponse(500, BodyError(event.body))
        /\ (ReachesBuild /\ replies.render.status = "raise")
              => response = ErrorResponse(500, "render failed")
        /\ (ReachesBuild /\ HasBadRecord)
              => /\ BuildResult.exc # ""
                 /\ response = ErrorResponse(500, BuildResult.exc)
        /\ (response.statusCode = 200 /\ event.httpMethod # "OPTIONS")
              => /\ ReachesBuild
                 /\ calls \in {<<"create_pdf">>, <<"create_docx">>}
                 /\ BuildResult.exc = ""
                 /\ doc.file_bytes = BuildResult.bytes
                 /\ response.body.kind = "file"
                 /\ response.body.size = Len(doc.file_bytes)
                 /\ Len(response.body.content) = 4 * ((Len(doc.file_bytes) + 2) \div 3)
                 /\ B64Decode(response.body.content) = doc.file_bytes

\* C10 witness: a request with a record that is not an object was answered 500
C10_Witness ==
    /\ ExpDone /\ ReachesBuild /\ HasBadRecord
    /\ response.statusCode = 500
    /\ calls # <<>>

-----------------------------------------------------------------------------
(* Properties of both handlers *)

\* Nothing of the body was read, nothing built and nothing called
Untouched ==
    /\ calls = <<>>
    /\ replies = NoReplies
    /\ word = <<>>
    /\ lang = Absent
    /\ synonyms = <<>>
    /\ doc = NoDoc

\* C7: in both handlers OPTIONS is answered 200 with an empty body and the CORS
\* preflight headers, and any method other than OPTIONS and POST is answered 405 with
\* an error body; neither path parses the body, builds a document or makes a call.
C7_MethodGate ==
    (pc = "done" /\ handlerName # "none") =>
        /\ event.httpMethod = "OPTIONS" =>
              /\ response.statusCode = 200
              /\ response.body = [kind |-> "empty"]
              /\ <<"Access-Control-Allow-Origin", "*">> \in response.headers
              /\ <<"Access-Control-Allow-Headers", "Content-Type">> \in response.headers
              /\ \E h \in response.headers : h[1] = "Access-Control-Allow-Methods"
              /\ Untouched
        /\ event.httpMethod \notin {"OPTIONS", "POST", NoMethod} =>
              /\ response.statusCode = 405
              /\ response.body = [kind |-> "error", error |-> "Method not allowed"]
              /\ Untouched

\* C7 witness: a lower-case 'post' carrying a complete export request was answered 405
C7_Witness ==
    /\ pc = "done" /\ handlerName = "export"
    /\ event.httpMethod = "post"
    /\ event.body.kind = "object"
    /\ event.body.text.t = "str" /\ event.body.text.v # <<>>
    /\ event.body.format = Str(F_pdf)
    /\ response.statusCode = 405

-----------------------------------------------------------------------------
(* Properties of the synonyms handler *)

SynDone == handlerName = "synonyms" /\ pc = "done"

\* A POST whose body parses to a JSON object (an absent body is read as '{}')
SynPostObject ==
    /\ handlerName = "synonyms"
    /\ event.httpMethod = "POST"
    /\ event.body.kind \in {"object", "absent"}

\* The request's word is a string with a character that is not white space
WordGiven ==
    /\ event.body.word.t = "str"
    /\ \E i \in 1..Len(event.body.word.v) : event.body.word.v[i] # 32

\* The request's word is absent or a string of white space only
WordBlank ==
    /\ event.body.word.t \in {"absent", "str"}
    /\ \A i \in 1..Len(event.body.word.v) : event.body.word.v[i] = 32

ContextQualifies == event.body.context.t = "str" /\ Len(event.body.context.v) >= 11

KeyConfigured == env.OPENAI_API_KEY.set /\ env.OPENAI_API_KEY.value # ""

Served == response.statusCode = 200 /\ response.body.kind = "synonyms"

WithSource(syns, src) == SelectSeq(syns, LAMBDA e : e.source = src)

\* The synonym API was called and its reply was not a JSON array of objects with a word
DatamuseFailed ==
    /\ "datamuse" \in {calls[i] : i \in 1..Len(calls)}
    /\ \/ replies.datamuse.status # "ok"
       \/ replies.datamuse.data # "list"
       \/ \E i \in 1..Len(replies.datamuse.items) : "word" \notin replies.datamuse.items[i].keys

CalledOpenAI == "openai" \in {calls[i] : i \in 1..Len(calls)}
CalledDatamuse == "datamuse" \in {calls[i] : i \in 1..Len(calls)}

\* The model's reply carries a JSON array: no transport or parse failure
OpenAIUsable ==
    /\ replies.openai.status = "ok"
    /\ \A i \in 1..Len(replies.openai.content) : replies.openai.content[i].k # "text"
    /\ \E i \in 1..Len(replies.openai.content) :
          replies.openai.content[i].k = "value" /\ replies.openai.content[i].val.t = "list"

\* The elements of the JSON array the model replied with
ReplyItems ==
    IF CalledOpenAI /\ OpenAIUsable
    THEN LET i == CHOOSE j \in 1..Len(replies.openai.content) : replies.openai.content[j].k = "value"
         IN  replies.openai.content[i].val.items
    ELSE <<>>

\* C4: a POST with a JSON object body, a word that is not blank and a string (or no)
\* context is answered 200 whatever the outbound calls do; a failed call adds no
\* synonym; a failed synonym API does not stop the contextual lookup; with lang 'en',
\* no context and a failed synonym API the answer is synonyms [] and count 0.
C4_AlwaysAnswers ==
    (SynDone /\ SynPostObject /\ WordGiven /\ event.body.context.t \in {"absent", "str"})
        => /\ Served
           /\ DatamuseFailed => WithSource(response.body.synonyms, "datamuse") = <<>>
           /\ (CalledOpenAI /\ ~OpenAIUsable) => WithSource(response.body.synonyms, "contextual") = <<>>
           /\ (DatamuseFailed /\ ContextQualifies /\ KeyConfigured) => CalledOpenAI
           /\ (event.body.lang = Str(L_en) /\ event.body.context = Absent /\ DatamuseFailed)
                 => response.body.synonyms = <<>> /\ response.body.count = 0

\* C4 witness: both calls were made, both failed, and the answer is 200
C4_Witness ==
    /\ SynDone /\ SynPostObject /\ WordGiven
    /\ calls = <<"datamuse", "openai">>
    /\ replies.datamuse.status = "neterr"
    /\ replies.openai.status = "timeout"
    /\ Served

CyrillicCount(w) == Cardinality({i \in 1..Len(w) : w[i] \in 1024..1279})
LatinCount(w) == Cardinality({i \in 1..Len(w) : w[i] \in (97..122) \cup (65..90)})

\* C5: in a 200 response the language is, when lang is absent or empty, 'ru' exactly
\* when the word has more Cyrillic characters than Latin letters and 'en' otherwise;
\* a supplied lang is returned unchanged; the synonym API is queried only when the
\* language is exactly 'en'; a 'ru' answer without a contextual lookup has no synonyms.
C5_Language ==
    (SynDone /\ Served) =>
        /\ event.body.lang \in {Absent, Str(<<>>)} =>
              response.body.language =
                 IF CyrillicCount(event.body.word.v) > LatinCount(event.body.word.v)
                 THEN Str(L_ru) ELSE Str(L_en)
        /\ event.body.lang \notin {Absent, Str(<<>>)} => response.body.language = event.body.lang
        /\ CalledDatamuse <=> response.body.language = Str(L_en)
        /\ (response.body.language = Str(L_ru) /\ ~CalledOpenAI) => response.body.synonyms = <<>>

\* C5 witness: no lang given, a word with one Cyrillic and one non-letter character
\* was answered 'ru' with no synonyms
C5_Witness ==
    /\ SynDone /\ Served
    /\ event.body.lang = Absent
    /\ event.body.word.v = <<1103, 49>>
    /\ response.body.language = Str(L_ru)
    /\ response.body.synonyms = <<>>

\* C6: for a request that passes validation, the language model is called if and
\* only if the context is a string of more than 10 characters and the credential is
\* set and not empty, whatever the language; when either fails, every synonym of the
\* response has source 'datamuse'.
C6_ContextualGate ==
    (SynPostObject /\ WordGiven) =>
        /\ pc \in {"enriched", "done"} => (CalledOpenAI <=> (ContextQualifies /\ KeyConfigured))
        /\ pc \notin {"enriched", "done"} => ~CalledOpenAI
        /\ (SynDone /\ Served /\ ~(ContextQualifies /\ KeyConfigured))
              => \A i \in 1..Len(response.body.synonyms) : response.body.synonyms[i].source = "datamuse"

\* C6 witness: a request with language 'ru' and an 11-character context reached the model
C6_Witness ==
    /\ SynDone /\ Served
    /\ response.body.language = Str(L_ru)
    /\ Len(event.body.context.v) = 11
    /\ CalledOpenAI

\* C8: a blank word is answered 400 before any outbound call; the synonym API and the
\* language model are each called at most once, the model only after the synonym API
\* step is over, so an invocation makes at most two calls.
C8_StepOrder ==
    handlerName = "synonyms" =>
        /\ (pc = "done" /\ SynPostObject /\ WordBlank)
              => response = ErrorResponse(400, "Word is required") /\ calls = <<>>
        /\ calls \in {<<>>, <<"datamuse">>, <<"openai">>, <<"datamuse", "openai">>}
        /\ pc \in {"entry", "validated", "detected"} => calls = <<>>
        /\ pc = "lookedUp" => ~CalledOpenAI

\* C8 witness: the synonym API timed out and the model was then called once
C8_Witness ==
    /\ SynDone
    /\ replies.datamuse.status = "timeout"
    /\ calls = <<"datamuse", "openai">>

Min(a, b) == IF a < b THEN a ELSE b

\* C9: in a 200 response count is the length of synonyms; the datamuse entries are
\* the first (up to) 5 API results in API order and come first; the contextual
\* entries are the reply's objects that have a word, in order, each with source
\* 'contextual'; nothing is de-duplicated.
C9_ResponseShape ==
    (SynDone /\ Served) =>
        LET syns == response.body.synonyms
            dm == WithSource(syns, "datamuse")
            cx == WithSource(syns, "contextual")
            api == IF CalledDatamuse /\ ~DatamuseFailed THEN replies.datamuse.items ELSE <<>>
            kept == SelectSeq(ReplyItems, LAMBDA e : e.t = "obj" /\ "word" \in e.keys)
        IN  /\ response.body.count = Len(syns)
            /\ syns = dm \o cx
            /\ Len(dm) = Min(5, Len(api))
            /\ \A i \in 1..Len(dm) : dm[i].word = api[i].word
            /\ Len(cx) = Len(kept)
            /\ \A i \in 1..Len(cx) : cx[i].word = kept[i].word /\ cx[i].context = kept[i].context

\* C9 witness: six API results, five kept, and a word of the model's that the API
\* also returned appears a second time
C9_Witness ==
    /\ SynDone /\ Served
    /\ Len(replies.datamuse.items) = 6
    /\ Len(WithSource(response.body.synonyms, "datamuse")) = 5
    /\ \E i \in 1..Len(response.body.synonyms) :
          /\ response.body.synonyms[i].source = "contextual"
          /\ response.body.synonyms[i].word = response.body.synonyms[1].word

=============================================================================
